---- MODULE Spec2Model ----
(***************************************************************************)
(* paquo/hierarchy.py: PathObjectProxy (the set-like, indexable view on    *)
(* the objects of one class in a QuPath hierarchy) and                     *)
(* QuPathPathObjectHierarchy (the owner of the two base proxies, the       *)
(* readonly policy and load_geojson).                                      *)
(*                                                                         *)
(* The Java hierarchy is an ordered collection of path objects (the order  *)
(* getObjects returns them in); the root object is not part of it.         *)
(***************************************************************************)
EXTENDS Integers, Sequences, FiniteSets, TLC

VARIABLES
    store,   \* the Java hierarchy: the sequence of path objects below the root
    image,   \* the enclosing image entry behind _image_ref, and its _readonly flag
    views,   \* <<annotations, detections>>, then the derived proxy the caller holds
    last     \* the last call made and how it ended

vars == <<store, image, views, last>>

----------------------------------------------------------------------------
(* Bounds *)

\* path objects that exist: 1..MaxObjs
MaxObjs == 4
\* slice bounds and list indices are drawn from -MaxIdx..MaxIdx
MaxIdx == 2
\* records of a geojson list
MaxBatch == 2

----------------------------------------------------------------------------
(* Python values *)

None == <<>>
Some(n) == <<n>>

Min(a, b) == IF a < b THEN a ELSE b
Max(a, b) == IF a < b THEN b ELSE a

\* slice.indices(n): the slice's start, stop and step adjusted to a sequence
\* of length n
SliceIndices(s, n) ==
    LET step  == IF s.step = None THEN 1 ELSE s.step[1]
        lower == IF step < 0 THEN -1 ELSE 0
        upper == IF step < 0 THEN n - 1 ELSE n
        start == IF s.start = None THEN (IF step < 0 THEN upper ELSE lower)
                 ELSE IF s.start[1] < 0 THEN Max(s.start[1] + n, lower)
                 ELSE Min(s.start[1], upper)
        stop  == IF s.stop = None THEN (IF step < 0 THEN lower ELSE upper)
                 ELSE IF s.stop[1] < 0 THEN Max(s.stop[1] + n, lower)
                 ELSE Min(s.stop[1], upper)
    IN  [start |-> start, stop |-> stop, step |-> step]

\* range(n)
Range(n) == [start |-> 0, stop |-> n, step |-> 1]

\* len(r) of a range r
RangeLen(r) ==
    IF r.step > 0 /\ r.start < r.stop THEN ((r.stop - r.start - 1) \div r.step) + 1
    ELSE IF r.step < 0 /\ r.stop < r.start
         THEN ((r.start - r.stop - 1) \div (0 - r.step)) + 1
    ELSE 0

\* list(r): the numbers of a range, in order
RangeSeq(r) == [k \in 1..RangeLen(r) |-> r.start + (k - 1) * r.step]

\* r[s] of a range r and a slice s: a range again
RangeGetSlice(r, s) ==
    LET i == SliceIndices(s, RangeLen(r))
    IN  [start |-> r.start + i.start * r.step,
         stop  |-> r.start + i.stop * r.step,
         step  |-> r.step * i.step]

\* x[i] of a sequence x and an int i: IndexError outside -len..len-1
SeqGetItem(x, i) ==
    LET n == Len(x)
        j == IF i < 0 THEN i + n ELSE i
    IN  IF 0 <= j /\ j < n THEN [ok |-> TRUE, val |-> x[j + 1]]
        ELSE [ok |-> FALSE, val |-> 0]

\* x[s] of a list x and a slice s
ListGetSlice(x, s) ==
    LET pos == RangeSeq(SliceIndices(s, Len(x)))
    IN  [k \in 1..Len(pos) |-> x[pos[k] + 1]]

\* [x[i] for i in idx]: IndexError when some i is out of range
ListGetItems(x, idx) ==
    IF \A k \in 1..Len(idx) : SeqGetItem(x, idx[k]).ok
    THEN [ok |-> TRUE, val |-> [k \in 1..Len(idx) |-> SeqGetItem(x, idx[k]).val]]
    ELSE [ok |-> FALSE, val |-> <<>>]

----------------------------------------------------------------------------
(* Path objects and masks *)

Objects == 1..MaxObjs

\* the class of a path object: of every four objects two are annotations, one
\* is a detection and one is a tile
KindOf(o) ==
    IF o % 4 = 3 THEN "detection" ELSE IF o % 4 = 0 THEN "tile" ELSE "annotation"

\* the classes an object of a kind is an instance of: a tile is a detection
\* (paquo/pathobjects.py and the Java classes, which the hierarchy imports)
ClassesOf(kind) == IF kind = "tile" THEN {"tile", "detection"} ELSE {kind}

\* isinstance(x, paquo_cls)
IsInstance(x, cls) == cls \in ClassesOf(KindOf(x))

NoMask == [tag |-> "None", start |-> None, stop |-> None, step |-> None, idx |-> <<>>]
SliceMask(s) ==
    [tag |-> "slice", start |-> s.start, stop |-> s.stop, step |-> s.step, idx |-> <<>>]
ListMask(idx) ==
    [tag |-> "list", start |-> None, stop |-> None, step |-> None, idx |-> idx]

\* bool(mask), as in "if self._mask:": a slice is always true, a list is true
\* when it is not empty, None is false
Truthy(mask) ==
    \/ mask.tag = "slice"
    \/ mask.tag = "list" /\ Len(mask.idx) > 0

----------------------------------------------------------------------------
(* PathObjectProxy *)

\* PathObjectProxy.__init__: TypeError unless the mask is None, a slice or a
\* non-empty sequence of ints. _list and _readonly are not computed yet.
ProxyInit(cls, mask, depth) ==
    IF mask.tag = "None" \/ mask.tag = "slice" \/ Len(mask.idx) > 0
    THEN [ok |-> TRUE,
          view |-> [cls |-> cls, mask |-> mask, list |-> None, ro |-> None,
                    depth |-> depth]]
    ELSE [ok |-> FALSE,
          view |-> [cls |-> cls, mask |-> mask, list |-> None, ro |-> None,
                    depth |-> depth]]

\* java_hierarchy.getObjects(None, paquo_cls.java_class)
GetObjects(st, cls) == SelectSeq(st, LAMBDA o : IsInstance(o, cls))

\* java_hierarchy.nObjects(): the objects of every class
NObjects(st) == Len(st)

\* the body of PathObjectProxy._list: the objects of the class, masked
ListCompute(self, st) ==
    LET objs == GetObjects(st, self.cls)
    IN  IF ~Truthy(self.mask) THEN [ok |-> TRUE, val |-> objs]
        ELSE IF self.mask.tag = "slice"
             THEN [ok |-> TRUE, val |-> ListGetSlice(objs, self.mask)]
        ELSE ListGetItems(objs, self.mask.idx)

\* self._list computed on every read
ReadListAnew(self, st) ==
    LET c == ListCompute(self, st)
    IN  IF c.ok
        THEN [ok |-> TRUE, val |-> c.val, self |-> [self EXCEPT !.list = Some(c.val)]]
        ELSE [ok |-> FALSE, val |-> <<>>, self |-> self]

\* self._list, a cached_property: computed on the first read and kept until
\* _list_invalidate_cache; an IndexError of the computation caches nothing
ReadList(self, st) ==
    IF self.list # None THEN [ok |-> TRUE, val |-> self.list[1], self |-> self]
    ELSE LET c == ListCompute(self, st)
         IN  IF c.ok
             THEN [ok |-> TRUE, val |-> c.val,
                   self |-> [self EXCEPT !.list = Some(c.val)]]
             ELSE [ok |-> FALSE, val |-> <<>>, self |-> self]

\* PathObjectProxy._list_invalidate_cache
ListInvalidateCache(self) == [self EXCEPT !.list = None]

\* QuPathPathObjectHierarchy._readonly, a property: resolved on every read
HierarchyReadonly(img) ==
    IF img.ref # "alive" THEN FALSE ELSE img.readonly

\* self._readonly of a proxy, a cached_property: computed on the first read
\* and kept for the life of the proxy
ReadReadonly(self, img) ==
    IF self.ro # None THEN [val |-> self.ro[1], self |-> self]
    ELSE LET r == HierarchyReadonly(img) \/ self.mask.tag # "None"
         IN  [val |-> r, self |-> [self EXCEPT !.ro = Some(r)]]

\* java_hierarchy.addPathObject(x.java_object)
AddPathObject(st, x) ==
    IF \E k \in 1..Len(st) : st[k] = x THEN st ELSE Append(st, x)

\* java_hierarchy.removeObject(x.java_object, True)
RemoveObject(st, x) == SelectSeq(st, LAMBDA o : o # x)

\* java_hierarchy.getRootObject().removePathObjects(objs)
RemovePathObjects(st, objs) ==
    SelectSeq(st, LAMBDA o : \A k \in 1..Len(objs) : objs[k] # o)

\* PathObjectProxy.add without the check of the mask
ProxyAddUnmasked(self, x, st, img) ==
    LET r == ReadReadonly(self, img)
    IN  IF r.val THEN [res |-> "readonly", self |-> r.self, store |-> st]
        ELSE IF ~IsInstance(x, self.cls)
             THEN [res |-> "TypeError", self |-> r.self, store |-> st]
        ELSE [res |-> "ok", self |-> ListInvalidateCache(r.self),
              store |-> AddPathObject(st, x)]

\* PathObjectProxy.add: what it raises, the proxy and the store afterwards
ProxyAdd(self, x, st, img) ==
    IF Truthy(self.mask) THEN [res |-> "view", self |-> self, store |-> st]
    ELSE LET r == ReadReadonly(self, img)
         IN  IF r.val THEN [res |-> "readonly", self |-> r.self, store |-> st]
             ELSE IF ~IsInstance(x, self.cls)
                  THEN [res |-> "TypeError", self |-> r.self, store |-> st]
             ELSE [res |-> "ok", self |-> ListInvalidateCache(r.self),
                   store |-> AddPathObject(st, x)]

\* PathObjectProxy.discard with every check inside the try block, so that
\* the cache is invalidated also when a check raises
ProxyDiscardInvalidating(self, x, st, img) ==
    IF Truthy(self.mask)
    THEN [res |-> "view", self |-> ListInvalidateCache(self), store |-> st]
    ELSE LET r == ReadReadonly(self, img)
         IN  IF r.val
             THEN [res |-> "readonly", self |-> ListInvalidateCache(r.self), store |-> st]
             ELSE IF ~IsInstance(x, self.cls)
                  THEN [res |-> "TypeError", self |-> ListInvalidateCache(r.self),
                        store |-> st]
             ELSE [res |-> "ok", self |-> ListInvalidateCache(r.self),
                   store |-> RemoveObject(st, x)]

\* PathObjectProxy.discard
ProxyDiscard(self, x, st, img) ==
    IF Truthy(self.mask) THEN [res |-> "view", self |-> self, store |-> st]
    ELSE LET r == ReadReadonly(self, img)
         IN  IF r.val THEN [res |-> "readonly", self |-> r.self, store |-> st]
             ELSE IF ~IsInstance(x, self.cls)
                  THEN [res |-> "TypeError", self |-> r.self, store |-> st]
             ELSE [res |-> "ok", self |-> ListInvalidateCache(r.self),
                   store |-> RemoveObject(st, x)]

\* PathObjectProxy.clear: removes the objects of self._list, which is the
\* cached list when there is one
ProxyClear(self, st, img) ==
    IF Truthy(self.mask) THEN [res |-> "view", self |-> self, store |-> st]
    ELSE LET r == ReadReadonly(self, img)
             l == ReadList(r.self, st)
         IN  IF r.val THEN [res |-> "readonly", self |-> r.self, store |-> st]
             ELSE IF ~l.ok
                  THEN [res |-> "IndexError", self |-> ListInvalidateCache(l.self),
                        store |-> st]
             ELSE [res |-> "ok", self |-> ListInvalidateCache(l.self),
                   store |-> RemovePathObjects(st, l.val)]

\* the root object of the hierarchy, which getObjects does not return
Root == 0

\* x.parent: the parent of an object of the hierarchy is the root, an object
\* that is not in a hierarchy has none, and the root has none
Parent(x, st) ==
    IF x # Root /\ (\E k \in 1..Len(st) : st[k] = x) THEN Some(Root) ELSE None

\* while x.parent is not None: x = x.parent
RECURSIVE TopAncestor(_, _)
TopAncestor(x, st) ==
    IF Parent(x, st) = None THEN x ELSE TopAncestor(Parent(x, st)[1], st)

\* PathObjectProxy.__contains__ looking x up in the list of the proxy
ProxyContainsInList(self, x, st) ==
    LET l == ReadList(self, st)
    IN  l.ok /\ \E k \in 1..Len(l.val) : l.val[k] = x

\* PathObjectProxy.__contains__
ProxyContains(self, x, st) ==
    IF ~IsInstance(x, self.cls) THEN FALSE
    ELSE TopAncestor(x, st) = Root

\* SliceOfMask without the composition: the slice becomes the mask, whatever
\* the mask of the proxy
SliceOfMaskUncomposed(self, i, st) == SliceMask(i)

\* the mask PathObjectProxy.__getitem__ computes for a slice i
SliceOfMask(self, i, st) ==
    IF self.mask.tag = "None" THEN SliceMask(i)
    ELSE IF self.mask.tag = "slice"
         THEN SliceMask(LET s == RangeGetSlice(RangeGetSlice(Range(NObjects(st)), self.mask), i)
                        IN  [start |-> Some(s.start), stop |-> Some(s.stop),
                             step |-> Some(s.step)])
    ELSE ListMask(ListGetSlice(self.mask.idx, i))

\* the mask PathObjectProxy.__getitem__ computes for a sequence of ints i
\* (IndexError when an index is out of range)
ItemsOfMask(self, i, st) ==
    IF self.mask.tag = "None" THEN [ok |-> TRUE, val |-> ListMask(i)]
    ELSE LET m == IF self.mask.tag = "slice"
                  THEN ListGetItems(RangeSeq(RangeGetSlice(Range(NObjects(st)), self.mask)), i)
                  ELSE ListGetItems(self.mask.idx, i)
         IN  [ok |-> m.ok, val |-> ListMask(m.val)]

----------------------------------------------------------------------------
(* The calls *)

BaseViews ==
    <<ProxyInit("annotation", NoMask, 0).view, ProxyInit("detection", NoMask, 0).view>>

NoView == [cls |-> "", mask |-> NoMask, list |-> None, ro |-> None, depth |-> 0]

\* what "last" records of a call: the call, the proxy it was made on (0 for
\* the hierarchy), its argument, what it raised ("ok" when nothing), the
\* proxy as it was before the call, and what the call returned
Call(op, v, arg, res, pre, out) ==
    [op |-> op, v |-> v, arg |-> arg, res |-> res, pre |-> pre, out |-> out]

\* the proxies with proxy v replaced
WithView(v, self) == [views EXCEPT ![v] = self]

\* the proxies with the derived proxy the caller holds replaced by a new one
WithDerived(new) == <<views[1], views[2], new>>

\* the proxy a call was made on, without what it has cached
Operand(self) == [self EXCEPT !.list = None, !.ro = None]

\* slices and index lists a caller indexes with
OptInts == {None} \cup {Some(n) : n \in (0 - MaxIdx)..MaxIdx}
Steps == {None, Some(-1), Some(2)}
Slices == [start : OptInts, stop : OptInts, step : Steps]
IndexLists ==
    {<<>>} \cup {<<i>> : i \in (0 - MaxIdx)..MaxIdx}
           \cup {<<i, j>> : i, j \in (0 - MaxIdx)..MaxIdx}

\* PathObjectProxy.__getitem__ with a slice i: a new proxy over the same
\* hierarchy and class
GetItemSlice(v, i) ==
    LET self == views[v]
        new  == ProxyInit(self.cls, SliceOfMask(self, i, store), self.depth + 1)
    IN  /\ views' = IF new.ok THEN WithDerived(new.view) ELSE views
        /\ last' = Call("getitem_slice", v, i, IF new.ok THEN "ok" ELSE "TypeError",
                        Operand(self), None)
        /\ UNCHANGED <<store, image>>

\* PathObjectProxy.__getitem__ with a sequence of ints i
GetItemList(v, i) ==
    LET self == views[v]
        m    == ItemsOfMask(self, i, store)
        new  == ProxyInit(self.cls, m.val, self.depth + 1)
    IN  /\ views' = IF m.ok /\ new.ok THEN WithDerived(new.view) ELSE views
        /\ last' = Call("getitem_list", v, i,
                        IF ~m.ok THEN "IndexError"
                        ELSE IF ~new.ok THEN "TypeError" ELSE "ok",
                        Operand(self), None)
        /\ UNCHANGED <<store, image>>

\* a base proxy, or a proxy that indexing a base proxy gave
CanIndex(v) == v \in 1..Len(views) /\ views[v].depth <= 1

\* the caller lets go of the derived proxy it holds
DropDerived ==
    /\ Len(views) = 3
    /\ views' = <<views[1], views[2]>>
    /\ last' = Call("del", 3, None, "ok", NoView, None)
    /\ UNCHANGED <<store, image>>

\* len(view), and iteration alike: reads self._list
Len_(v) ==
    LET l == ReadList(views[v], store)
    IN  /\ views' = WithView(v, l.self)
        /\ last' = Call("len", v, None, IF l.ok THEN "ok" ELSE "IndexError", NoView,
                        IF l.ok THEN Some(Len(l.val)) ELSE None)
        /\ UNCHANGED <<store, image>>

\* PathObjectProxy.add
Add(v, x) ==
    LET r == ProxyAdd(views[v], x, store, image)
    IN  /\ views' = WithView(v, r.self)
        /\ store' = r.store
        /\ last' = Call("add", v, x, r.res, NoView, None)
        /\ UNCHANGED image

\* PathObjectProxy.discard
Discard(v, x) ==
    LET r == ProxyDiscard(views[v], x, store, image)
    IN  /\ views' = WithView(v, r.self)
        /\ store' = r.store
        /\ last' = Call("discard", v, x, r.res, NoView, None)
        /\ UNCHANGED image

\* PathObjectProxy.clear
Clear(v) ==
    LET r == ProxyClear(views[v], store, image)
    IN  /\ views' = WithView(v, r.self)
        /\ store' = r.store
        /\ last' = Call("clear", v, None, r.res, NoView, None)
        /\ UNCHANGED image

\* x in view: the proxy is recorded as it was, with what it has cached
Contains(v, x) ==
    /\ last' = Call("contains", v, x, "ok", views[v],
                    Some(ProxyContains(views[v], x, store)))
    /\ UNCHANGED <<store, image, views>>

----------------------------------------------------------------------------
(* QuPathPathObjectHierarchy *)

\* the objects the hierarchy or the list of a proxy holds
InUse ==
    {store[k] : k \in 1..Len(store)}
        \cup UNION {IF views[v].list = None THEN {}
                    ELSE {views[v].list[1][k] : k \in 1..Len(views[v].list[1])}
                    : v \in 1..Len(views)}

\* the n objects of a class that from_shapely or from_geojson makes: objects
\* that did not exist before
RECURSIVE NewObjects(_, _, _, _)
NewObjects(kind, n, from, inuse) ==
    IF n = 0 THEN <<>>
    ELSE IF KindOf(from) = kind /\ from \notin inuse
         THEN <<from>> \o NewObjects(kind, n - 1, from + 1, inuse)
    ELSE NewObjects(kind, n, from + 1, inuse)

\* add_annotation, add_detection and add_tile: the readonly check of the
\* hierarchy, the new object, then add on the base proxy of its class
AddNew(op, kind, v) ==
    IF HierarchyReadonly(image)
    THEN /\ last' = Call(op, 0, None, "readonly", NoView, None)
         /\ UNCHANGED <<store, image, views>>
    ELSE LET obj == NewObjects(kind, 1, 1, InUse)[1]
             r   == ProxyAdd(views[v], obj, store, image)
         IN  /\ views' = WithView(v, r.self)
             /\ store' = r.store
             /\ last' = Call(op, 0, obj, r.res, NoView, None)
             /\ UNCHANGED image

add_annotation == AddNew("add_annotation", "annotation", 1)
add_detection == AddNew("add_detection", "detection", 2)
add_tile == AddNew("add_tile", "tile", 2)

\* the enclosing image entry changes its _readonly flag
SetReadonly(b) ==
    /\ image.ref = "alive"
    /\ image.readonly # b
    /\ image' = [image EXCEPT !.readonly = b]
    /\ last' = Call("set_readonly", 0, b, "ok", NoView, None)
    /\ UNCHANGED <<store, views>>

\* the enclosing image entry is collected: _image_ref() gives None from now on
Expire ==
    /\ image.ref = "alive"
    /\ image' = [image EXCEPT !.ref = "expired"]
    /\ last' = Call("expire", 0, None, "ok", NoView, None)
    /\ UNCHANGED <<store, views>>

----------------------------------------------------------------------------
(* load_geojson *)

\* A record of a geojson list, as far as load_geojson looks at it:
\*   geometry    "missing" when the record has no 'geometry'; otherwise
\*               whether the shape is valid, is valid after one or after two
\*               buffer(0, 1) passes ("fix1", "fix2"), or stays invalid
\*   properties  "missing" when the record has no 'properties'; "noclass"
\*               when they hold no classification; otherwise the
\*               classification's name
\*   id          whether the record has an 'id'
\*   conv        whether QuPathPathAnnotationObject.from_geojson converts the
\*               record (FALSE: it raises IllegalArgumentException or
\*               ValueError)
Geometries == {"missing", "valid", "fix1", "fix2", "invalid"}
Properties == {"missing", "noclass", "A"}
Records ==
    [geometry : Geometries, properties : Properties, id : BOOLEAN, conv : BOOLEAN]

ClassNames == {"UNDEFINED", "A"}

\* annotation["properties"].get("classification", {}).get("name", "UNDEFINED")
ClassName(r) == IF r.properties = "noclass" THEN "UNDEFINED" ELSE r.properties

\* collections.Counter(): a name that is not counted has count 0
EmptyTally == [c \in ClassNames |-> 0]

RECURSIVE SumOver(_, _)
SumOver(f, S) ==
    IF S = {} THEN 0
    ELSE LET c == CHOOSE c \in S : TRUE IN f[c] + SumOver(f, S \ {c})

\* sum(skipped.values())
SumTally(f) == SumOver(f, DOMAIN f)

\* the try block of the loop for one record: "ok" when from_geojson gave an
\* object, "skip" when IllegalArgumentException or ValueError was raised,
\* "KeyError" when the record lacks a field that is read
TryConvert(r, fix_invalid, legacy) ==
    IF fix_invalid /\ r.geometry = "missing" THEN "KeyError"
    ELSE IF fix_invalid /\ r.geometry = "invalid" THEN "skip"
    ELSE IF legacy /\ ~r.id /\ r.properties = "missing" THEN "KeyError"
    ELSE IF ~r.conv THEN "skip"
    ELSE "ok"

\* the loop over the records from record k on: staged holds the positions of
\* the records converted so far (aos), skipped the tally. A KeyError, of the
\* try block or of the except block reading annotation["properties"], is
\* not caught and ends the loop.
RECURSIVE LoadLoop(_, _, _, _, _, _)
LoadLoop(geojson, k, fix_invalid, legacy, staged, skipped) ==
    IF k > Len(geojson)
    THEN [res |-> "ok", staged |-> staged, skipped |-> skipped]
    ELSE LET r == geojson[k]
             c == TryConvert(r, fix_invalid, legacy)
         IN  IF c = "KeyError" \/ (c = "skip" /\ r.properties = "missing")
             THEN [res |-> "KeyError", staged |-> staged, skipped |-> skipped]
             ELSE IF c = "skip"
                  THEN LoadLoop(geojson, k + 1, fix_invalid, legacy, staged,
                                [skipped EXCEPT ![ClassName(r)] = @ + 1])
             ELSE LoadLoop(geojson, k + 1, fix_invalid, legacy,
                           Append(staged, k), skipped)

\* java_object.insertPathObjects(aos): the hierarchy with the objects, and
\* whether it changed
InsertPathObjects(st, aos) == [store |-> st \o aos, changed |-> aos # <<>>]

\* load_geojson inserting the converted objects before it looks at skipped
load_geojson_InsertFirst(geojson, raise_on_skip, fix_invalid, legacy) ==
    LET arg == [geojson |-> geojson, raise_on_skip |-> raise_on_skip,
                fix_invalid |-> fix_invalid, legacy |-> legacy]
        l   == LoadLoop(geojson, 1, fix_invalid, legacy, <<>>, EmptyTally)
        n_skipped == SumTally(l.skipped)
        aos == NewObjects("annotation", Len(l.staged), 1, InUse)
        ins == InsertPathObjects(store, aos)
        out(ret) == [staged |-> l.staged, skipped |-> l.skipped,
                     n_skipped |-> n_skipped, ret |-> ret]
    IN  /\ UNCHANGED <<image, views>>
        /\ IF HierarchyReadonly(image)
           THEN /\ last' = Call("load_geojson", 0, arg, "readonly", NoView, None)
                /\ UNCHANGED store
           ELSE IF l.res = "KeyError"
           THEN /\ last' = Call("load_geojson", 0, arg, "KeyError", NoView, None)
                /\ UNCHANGED store
           ELSE IF n_skipped > 0 /\ raise_on_skip
           THEN /\ last' = Call("load_geojson", 0, arg, "ValueError", NoView, out(None))
                /\ store' = ins.store
           ELSE /\ last' = Call("load_geojson", 0, arg, "ok", NoView, out(Some(ins.changed)))
                /\ store' = ins.store

\* QuPathPathObjectHierarchy.load_geojson, for a list geojson; legacy is
\* qupath_version <= "0.2.3". The proxies are not touched.
load_geojson(geojson, raise_on_skip, fix_invalid, legacy) ==
    LET arg == [geojson |-> geojson, raise_on_skip |-> raise_on_skip,
                fix_invalid |-> fix_invalid, legacy |-> legacy]
        l   == LoadLoop(geojson, 1, fix_invalid, legacy, <<>>, EmptyTally)
        n_skipped == SumTally(l.skipped)
        aos == NewObjects("annotation", Len(l.staged), 1, InUse)
        ins == InsertPathObjects(store, aos)
        out(ret) == [staged |-> l.staged, skipped |-> l.skipped,
                     n_skipped |-> n_skipped, ret |-> ret]
    IN  /\ UNCHANGED <<image, views>>
        /\ IF HierarchyReadonly(image)
           THEN /\ last' = Call("load_geojson", 0, arg, "readonly", NoView, None)
                /\ UNCHANGED store
           ELSE IF l.res = "KeyError"
           THEN /\ last' = Call("load_geojson", 0, arg, "KeyError", NoView, None)
                /\ UNCHANGED store
           ELSE IF n_skipped > 0 /\ raise_on_skip
           THEN /\ last' = Call("load_geojson", 0, arg, "ValueError", NoView, out(None))
                /\ UNCHANGED store
           ELSE /\ last' = Call("load_geojson", 0, arg, "ok", NoView, out(Some(ins.changed)))
                /\ store' = ins.store

----------------------------------------------------------------------------
(* Indexing proxies of a hierarchy that nothing modifies *)

AllObjects == [k \in 1..MaxObjs |-> k]

InitStores == {SubSeq(AllObjects, 1, n) : n \in 0..MaxObjs}

NoImage == [ref |-> "none", readonly |-> FALSE]

InitMask ==
    /\ store \in InitStores
    /\ image = NoImage
    /\ views = BaseViews
    /\ last = Call("init", 0, None, "ok", NoView, None)

\* the caller indexes a base proxy, or the proxy that indexing a base proxy
\* gave it; an exception leaves the proxies as they were, so the caller that
\* got one does not go on indexing from there
NextMask ==
    \/ /\ last.res = "ok"
       /\ \E v \in {Len(views)}, i \in Slices : CanIndex(v) /\ GetItemSlice(v, i)
    \/ /\ last.res = "ok"
       /\ \E v \in {Len(views)}, i \in IndexLists : CanIndex(v) /\ GetItemList(v, i)
    \/ DropDerived

SpecMask == InitMask /\ [][NextMask]_vars

----------------------------------------------------------------------------
(* One call of load_geojson on a new hierarchy *)

\* five records of which the third has a geometry that cannot be repaired
ValidRecord == [geometry |-> "valid", properties |-> "A", id |-> TRUE, conv |-> TRUE]
ExampleBatch(p) ==
    [k \in 1..5 |-> IF k = 3 THEN [ValidRecord EXCEPT !.geometry = "invalid",
                                                     !.properties = p]
                    ELSE ValidRecord]

Batches ==
    UNION {[1..n -> Records] : n \in 0..MaxBatch}
        \cup {ExampleBatch(p) : p \in {"noclass", "A"}}

AliveImage(ro) == [ref |-> "alive", readonly |-> ro]

InitLoad ==
    /\ \/ store = <<>> /\ image = NoImage
       \/ store = AllObjects /\ image \in {AliveImage(FALSE), AliveImage(TRUE)}
    /\ views = BaseViews
    /\ last = Call("init", 0, None, "ok", NoView, None)

NextLoad ==
    /\ last.op = "init"
    /\ \E geojson \in Batches, raise_on_skip, fix_invalid, legacy \in BOOLEAN :
          load_geojson(geojson, raise_on_skip, fix_invalid, legacy)

SpecLoad == InitLoad /\ [][NextLoad]_vars

----------------------------------------------------------------------------
(* The hierarchy and its proxies in use *)

MainSlices ==
    {[start |-> None, stop |-> None, step |-> None],
     [start |-> Some(1), stop |-> None, step |-> None],
     [start |-> None, stop |-> None, step |-> Some(-1)]}
MainLists == {<<0>>}

SkippedRecord ==
    [geometry |-> "invalid", properties |-> "noclass", id |-> TRUE, conv |-> FALSE]
MainBatches == {<<ValidRecord>>, <<SkippedRecord, ValidRecord>>}

Init ==
    /\ store = <<>>
    /\ image \in {NoImage, AliveImage(FALSE), AliveImage(TRUE)}
    /\ views = BaseViews
    /\ last = Call("init", 0, None, "ok", NoView, None)

\* the object from_shapely or from_geojson makes next
NextNew(kind) == NewObjects(kind, 1, 1, InUse)[1]

\* the objects a caller passes to add and discard: the objects in use, and a
\* new object of each class
Addable == {x \in Objects : x \in InUse \/ x = NextNew(KindOf(x))}

\* the calls that make objects are made while the objects are among Objects
Next ==
    \/ \E v \in 1..2 : Len_(v)
    \/ \E v \in 1..2, x \in Addable : Add(v, x)
    \/ \E v \in 1..2, x \in Addable : Discard(v, x)
    \/ \E v \in 1..2 : Clear(v)
    \/ NextNew("annotation") \in Objects /\ add_annotation
    \/ NextNew("detection") \in Objects /\ add_detection
    \/ NextNew("tile") \in Objects /\ add_tile
    \/ \E geojson \in MainBatches, raise_on_skip \in BOOLEAN :
          /\ \A k \in 1..Len(geojson) :
                NewObjects("annotation", Len(geojson), 1, InUse)[k] \in Objects
          /\ load_geojson(geojson, raise_on_skip, TRUE, FALSE)
    \/ \E b \in BOOLEAN : SetReadonly(b)
    \/ Expire

Spec == Init /\ [][Next]_vars

----------------------------------------------------------------------------
(* Derived proxies of a hierarchy in use *)

InitView ==
    /\ store \in InitStores
    /\ image \in {NoImage, AliveImage(FALSE), AliveImage(TRUE)}
    /\ views = BaseViews
    /\ last = Call("init", 0, None, "ok", NoView, None)

\* the caller indexes proxies, reads them, and calls add, discard and clear
\* on the derived proxy it holds, while the image entry changes
NextView ==
    \/ \E v \in 1..Len(views) : Len_(v)
    \/ \E v \in 1..Len(views), i \in MainSlices : CanIndex(v) /\ GetItemSlice(v, i)
    \/ \E v \in 1..Len(views), i \in MainLists : CanIndex(v) /\ GetItemList(v, i)
    \/ DropDerived
    \/ \E x \in Objects : Len(views) = 3 /\ Add(3, x)
    \/ \E x \in Objects : Len(views) = 3 /\ Discard(3, x)
    \/ Len(views) = 3 /\ Clear(3)
    \/ \E b \in BOOLEAN : SetReadonly(b)
    \/ Expire

SpecView == InitView /\ [][NextView]_vars

----------------------------------------------------------------------------
(* A derived proxy of a hierarchy that the base proxies modify *)

InitLive ==
    /\ store \in InitStores
    /\ image = NoImage
    /\ views = BaseViews
    /\ last = Call("init", 0, None, "ok", NoView, None)

\* the last call left the hierarchy and the proxies as they were: membership
\* tests, and add, discard and clear on the derived proxy, which raise before
\* they read or write anything
LeftAsWas == last.op = "contains" \/ (last.op \in {"add", "discard", "clear"} /\ last.v = 3)

\* the proxies the caller works with: annotations, and the proxy that
\* indexing it gave
LiveViews == {v \in 1..Len(views) : v # 2}

\* the caller indexes the base proxy, reads the proxies and tests
\* membership, while add, discard, clear and load_geojson change the
\* hierarchy; the calls are followed from the states that the calls before
\* them changed
NextLive ==
    \/ ~LeftAsWas /\ \E v \in LiveViews : Len_(v)
    \/ ~LeftAsWas /\ \E i \in MainSlices : GetItemSlice(1, i)
    \/ ~LeftAsWas /\ \E i \in MainLists : GetItemList(1, i)
    \/ ~LeftAsWas /\ DropDerived
    \/ ~LeftAsWas /\ \E v \in LiveViews, x \in Addable : Add(v, x)
    \/ ~LeftAsWas /\ \E v \in LiveViews, x \in Addable : Discard(v, x)
    \/ ~LeftAsWas /\ \E v \in LiveViews : Clear(v)
    \/ ~LeftAsWas /\ \E v \in LiveViews, x \in Addable : Contains(v, x)
    \/ /\ ~LeftAsWas
       /\ NextNew("annotation") \in Objects
       /\ load_geojson(<<ValidRecord>>, FALSE, FALSE, FALSE)

SpecLive == InitLive /\ [][NextLive]_vars

----------------------------------------------------------------------------
(* Derived proxies cannot be modified *)

Mutators == {"add", "discard", "clear"}

\* C1: every proxy that indexing with a slice or an index list gave carries a
\* mask that is not None, and add, discard and clear on it raise "cannot
\* modify view", whatever the argument and the readonly state of the
\* hierarchy, and leave the store as it was.
C1_Step ==
    /\ Len(views') = 3 => views'[3].mask.tag # "None"
    /\ (last'.op \in Mutators /\ last'.v = 3) =>
           /\ last'.res = "view"
           /\ store' = store

C1_DerivedViewsAreReadOnly == [][C1_Step]_vars

\* add of an object of its class failed on a proxy derived from a derived
\* proxy, in a hierarchy that is writable and holds objects
C1_Witness ==
    /\ last.op = "add" /\ last.v = 3
    /\ last.res = "view"
    /\ views[3].depth = 2
    /\ IsInstance(last.arg, views[3].cls)
    /\ ~HierarchyReadonly(image)
    /\ store # <<>>

----------------------------------------------------------------------------
(* Length and readonly state of the base proxies *)

\* what len(view) returns
LenRead(self, st) == Len(ReadList(self, st).val)

InStore(x, st) == \E k \in 1..Len(st) : st[k] = x

\* C5: add on a writable base proxy of an object of its class that is not in
\* the store makes the length one more than the length read immediately
\* before, and the next read computes the list anew, with the object in it.
C5_Step ==
    (/\ last'.op = "add" /\ last'.v \in {1, 2}
     /\ last'.res = "ok"
     /\ ~InStore(last'.arg, store)) =>
        /\ LenRead(views'[last'.v], store') = LenRead(views[last'.v], store) + 1
        /\ views'[last'.v].list = None
        /\ InStore(last'.arg, ReadList(views'[last'.v], store').val)

C5_AddGrowsLengthByOne == [][C5_Step]_vars

\* C6: add, discard and clear on a base proxy raise the readonly error
\* exactly when the readonly state of the hierarchy, resolved at the time of
\* the call, is true.
C6_ReadonlyIsLive ==
    (last.op \in Mutators /\ last.v \in {1, 2}) =>
        (last.res = "readonly" <=> HierarchyReadonly(image))

HierarchyMutators ==
    {"add_annotation", "add_detection", "add_tile", "load_geojson"}

\* C7: while the image entry is absent or collected, no call that modifies
\* the hierarchy raises the readonly error.
C7_NoImageIsWritable ==
    (/\ image.ref # "alive"
     /\ \/ last.op \in HierarchyMutators
        \/ last.op \in Mutators /\ last.v \in {1, 2}) =>
        last.res # "readonly"

\* C13: discard on a writable base proxy of an object of its class that is
\* not in the store raises nothing, leaves the store as it was, and the
\* length read after it is the length read before it.
C13_Step ==
    (/\ last'.op = "discard" /\ last'.v \in {1, 2}
     /\ last'.res # "readonly"
     /\ IsInstance(last'.arg, views[last'.v].cls)
     /\ ~InStore(last'.arg, store)) =>
        /\ last'.res = "ok"
        /\ store' = store
        /\ LenRead(views'[last'.v], store') = LenRead(views[last'.v], store)

C13_DiscardOfNonMember == [][C13_Step]_vars

\* C14: after clear returned without error on a base proxy, whatever calls
\* came before, the store holds no object of the class of the proxy and the
\* length of the proxy is 0.
C14_ClearEmptiesTheView ==
    (last.op = "clear" /\ last.v \in {1, 2} /\ last.res = "ok") =>
        /\ GetObjects(store, views[last.v].cls) = <<>>
        /\ LenRead(views[last.v], store) = 0

\* C15: add and discard check the mask, then the readonly state of the
\* hierarchy, then the class of the object: a proxy with a mask raises
\* "cannot modify view" whatever the rest, a base proxy of a readonly
\* hierarchy raises the readonly error for an object of any class, a base
\* proxy of a writable hierarchy raises TypeError for an object of another
\* class; in the three cases the store and the cached list are as before.
C15_Step ==
    last'.op \in {"add", "discard"} =>
        LET self == views[last'.v]
        IN  /\ Truthy(self.mask) => last'.res = "view"
            /\ (~Truthy(self.mask) /\ HierarchyReadonly(image)) =>
                   last'.res = "readonly"
            /\ (/\ ~Truthy(self.mask) /\ ~HierarchyReadonly(image)
                /\ ~IsInstance(last'.arg, self.cls)) =>
                   last'.res = "TypeError"
            /\ last'.res \in {"view", "readonly", "TypeError"} =>
                   /\ store' = store
                   /\ views'[last'.v].list = self.list

C15_OrderOfChecks == [][C15_Step]_vars

\* C16: the list of a proxy is computed from the store on the first read
\* after construction or after an invalidation, whole, and kept: every later
\* read returns the kept list without computing it again, also when the store
\* has changed since. Invalidating leaves no list, and invalidating a proxy
\* that has no list raises nothing and leaves it without one.
C16_Step ==
    /\ last'.op = "len" =>
           LET self == views[last'.v]
               c    == ListCompute(self, store)
           IN  /\ store' = store
               /\ self.list # None =>
                      /\ last'.res = "ok"
                      /\ last'.out = Some(Len(self.list[1]))
                      /\ views'[last'.v].list = self.list
               /\ (self.list = None /\ c.ok) =>
                      /\ last'.res = "ok"
                      /\ last'.out = Some(Len(c.val))
                      /\ views'[last'.v].list = Some(c.val)
               /\ (self.list = None /\ ~c.ok) =>
                      /\ last'.res = "IndexError"
                      /\ views'[last'.v].list = None
    /\ (last'.op \in Mutators /\ last'.res = "ok") =>
           views'[last'.v].list = None
    /\ \A v \in 1..Len(views) :
           /\ ListInvalidateCache(views[v]).list = None
           /\ ListInvalidateCache(ListInvalidateCache(views[v]))
                  = ListInvalidateCache(views[v])
           /\ views[v].list = None => ListInvalidateCache(views[v]) = views[v]

C16_ListIsMemoized == [][C16_Step]_vars

\* a read returned the kept list of a proxy although the store had changed
\* since the list was computed
C16_Witness ==
    /\ last.op = "len" /\ last.res = "ok"
    /\ views[last.v].list # None
    /\ Some(ListCompute(views[last.v], store).val) # views[last.v].list
    /\ last.out = Some(Len(views[last.v].list[1]))

\* C17: after every sequence of calls the length of annotations is the
\* number of annotations in the store and the length of detections is the
\* number of detections in the store; the lengths read before and after a
\* load_geojson that succeeded differ by the number of objects it inserted.
C17_Step ==
    /\ \A v \in {1, 2} :
          LenRead(views'[v], store') = Len(GetObjects(store', views'[v].cls))
    /\ (last'.op = "load_geojson" /\ last'.res = "ok") =>
          LenRead(views'[1], store') - LenRead(views[1], store)
              = Len(store') - Len(store)

C17_BaseViewsFollowTheStore == [][C17_Step]_vars

----------------------------------------------------------------------------
(* load_geojson and the records it skips *)

\* a record that cannot be converted: its geometry stays invalid after the
\* two repair passes of fix_invalid, or from_geojson rejects it
FailsConversion(r, fix_invalid) ==
    \/ fix_invalid /\ r.geometry = "invalid"
    \/ ~r.conv

HasGeometry(r) == r.geometry # "missing"

\* a record with the members of a geojson feature
HasFields(r) == HasGeometry(r) /\ r.properties # "missing"

Failed(arg) ==
    {k \in 1..Len(arg.geojson) : FailsConversion(arg.geojson[k], arg.fix_invalid)}

\* the positions of the other records, in the order of the list
Converted(arg) ==
    SelectSeq([k \in 1..Len(arg.geojson) |-> k], LAMBDA k : k \notin Failed(arg))

\* a call of load_geojson on a writable hierarchy
LoadCall == last'.op = "load_geojson" /\ ~HierarchyReadonly(image)

\* ... with records that have a geometry; the classification name is optional
LoadStep ==
    /\ LoadCall
    /\ \A k \in 1..Len(last'.arg.geojson) : HasGeometry(last'.arg.geojson[k])

\* C8: with raise_on_skip, when a record fails conversion, load_geojson
\* raises the error that reports the number of records skipped, the sum of
\* the tally, and the store is as it was before the call.
C8_Step ==
    (LoadStep /\ last'.arg.raise_on_skip /\ Failed(last'.arg) # {}) =>
        /\ last'.res = "ValueError"
        /\ last'.out.n_skipped = Cardinality(Failed(last'.arg))
        /\ last'.out.n_skipped = SumTally(last'.out.skipped)
        /\ store' = store

C8_RaiseOnSkip == [][C8_Step]_vars

\* C9 as claimed: with raise_on_skip, when a record fails and a record
\* converts, the converted objects are in the store when the error is raised.
C9_Step ==
    (/\ LoadCall /\ last'.arg.raise_on_skip
     /\ \A k \in 1..Len(last'.arg.geojson) : HasFields(last'.arg.geojson[k])
     /\ Failed(last'.arg) # {}
     /\ Converted(last'.arg) # <<>>) =>
        /\ last'.res = "ValueError"
        /\ Len(store') = Len(store) + Len(Converted(last'.arg))

C9_InsertsThenRaises == [][C9_Step]_vars

\* C9, amended: with raise_on_skip, when a record fails and a record
\* converts, the call raises before insertPathObjects is reached: no
\* converted object is in the store when the caller receives the error. For
\* records with geometry and properties the error is the one that reports
\* the records skipped, and the converted objects had been collected.
C9_AmendedStep ==
    (/\ LoadCall /\ last'.arg.raise_on_skip
     /\ Failed(last'.arg) # {}
     /\ Converted(last'.arg) # <<>>) =>
        /\ last'.res \in {"ValueError", "KeyError"}
        /\ store' = store
        /\ (\A k \in 1..Len(last'.arg.geojson) : HasFields(last'.arg.geojson[k])) =>
               /\ last'.res = "ValueError"
               /\ last'.out.staged = Converted(last'.arg)

C9_RaisesBeforeInserting == [][C9_AmendedStep]_vars

\* the error was raised for a list of which a record had converted, on a
\* hierarchy that holds objects
C9_Witness ==
    /\ last.op = "load_geojson" /\ last.res = "ValueError"
    /\ last.out.staged # <<>>
    /\ last.out.n_skipped >= 1
    /\ store = AllObjects

\* C10: without raise_on_skip, of n records of which k fail conversion the
\* n - k converted objects are inserted in the order of the records, in one
\* insertion; every failed record is counted once under its classification
\* name, "UNDEFINED" when it has none, so the tally sums to k; no error is
\* raised; the result is true exactly when the insertion changed the store.
\* For five records of which the third cannot be repaired the result is
\* true, the tally is {its classification: 1} and four objects are added.
C10_Step ==
    (LoadStep /\ ~last'.arg.raise_on_skip) =>
        /\ last'.res = "ok"
        /\ LET arg == last'.arg
               out == last'.out
               aos == SubSeq(store', Len(store) + 1, Len(store'))
           IN  /\ out.staged = Converted(arg)
               /\ store' = store \o aos
               /\ Len(aos) = Len(arg.geojson) - Cardinality(Failed(arg))
               /\ \A k \in 1..Len(aos) :
                     /\ ~InStore(aos[k], store)
                     /\ \A j \in 1..Len(aos) : aos[j] = aos[k] => j = k
               /\ \A c \in ClassNames :
                     out.skipped[c] =
                         Cardinality({k \in Failed(arg) :
                                         arg.geojson[k].properties = c
                                         \/ (c = "UNDEFINED"
                                             /\ arg.geojson[k].properties
                                                    \in {"noclass", "missing"})})
               /\ out.n_skipped = Cardinality(Failed(arg))
               /\ out.ret = Some(store' # store)
               /\ \A p \in {"noclass", "A"} :
                     (arg.geojson = ExampleBatch(p) /\ arg.fix_invalid) =>
                         /\ out.ret = Some(TRUE)
                         /\ out.skipped[IF p = "A" THEN "A" ELSE "UNDEFINED"] = 1
                         /\ out.n_skipped = 1
                         /\ Len(store') = Len(store) + 4

C10_LoadWithoutRaise == [][C10_Step]_vars

\* C11: no record makes load_geojson end with an error of its own: a record
\* that cannot be converted, one that lacks 'geometry' or 'properties'
\* included, is counted in the tally and the loop goes on, so every record of
\* the list is either converted or counted.
C11_Step ==
    LoadCall =>
        /\ last'.res \in {"ok", "ValueError"}
        /\ Len(last'.out.staged) + last'.out.n_skipped = Len(last'.arg.geojson)

C11_NoRecordAbortsTheLoad == [][C11_Step]_vars

----------------------------------------------------------------------------
(* Membership *)

\* C12: x in view is false for an object that is not of the class of the
\* proxy, and otherwise true exactly when the topmost ancestor of x is the
\* root of the hierarchy as it is now; the list the proxy has cached, absent,
\* current or stale, with or without x, has no part in it, for base and
\* derived proxies alike.
C12_ContainsIsStructural ==
    last.op = "contains" =>
        /\ ~IsInstance(last.arg, last.pre.cls) => last.out = Some(FALSE)
        /\ IsInstance(last.arg, last.pre.cls) =>
               last.out = Some(TopAncestor(last.arg, store) = Root)
        /\ last.out = Some(IsInstance(last.arg, last.pre.cls) /\ InStore(last.arg, store))
        /\ views[last.v] = last.pre

\* membership was true on a derived proxy whose cached list is stale and
\* does not hold the object
C12_Witness ==
    /\ last.op = "contains" /\ last.v = 3
    /\ last.pre.list # None
    /\ Some(ListCompute(last.pre, store).val) # last.pre.list
    /\ ~InStore(last.arg, last.pre.list[1])
    /\ last.out = Some(TRUE)

----------------------------------------------------------------------------
(* The list of a derived proxy *)

\* the step is a call while the caller keeps the derived proxy it holds
KeepsDerived ==
    /\ Len(views) = 3
    /\ last'.op \notin {"getitem_slice", "getitem_list", "del"}

\* C18: once a read has computed the list of a derived proxy, no call on the
\* hierarchy, on the base proxy or on the derived proxy, add, discard and
\* clear that it refuses included, changes the list it returns: every later
\* read gives the same objects at the same positions.
C18_Step ==
    (KeepsDerived /\ views[3].list # None) =>
        /\ Len(views') = 3
        /\ views'[3].list = views[3].list
        /\ ReadList(views'[3], store') =
               [ok |-> TRUE, val |-> views[3].list[1], self |-> views'[3]]
        /\ LenRead(views'[3], store') = Len(views[3].list[1])

----------------------------------------------------------------------------
(* Composition of masks *)

\* the objects a proxy iterates over when its list is computed from the
\* hierarchy as it is now
Elements(self) == ListCompute(self, store)

\* the call was made on a proxy that a slice of a base proxy gave
OnSliceOfBase == last.pre.mask.tag = "slice" /\ last.pre.depth = 1

\* C2: a slice s2 of a proxy view[s1] iterates over list(view[s1])[s2], for
\* every hierarchy, objects of both classes included.
C2_SliceOfSlice ==
    (last.op = "getitem_slice" /\ OnSliceOfBase) =>
        /\ last.res = "ok"
        /\ views[3].mask.tag = "slice"
        /\ Elements(views[3]) =
               [ok |-> TRUE, val |-> ListGetSlice(Elements(last.pre).val, last.arg)]

\* C3: an index list J of a proxy view[s], every j a position of
\* list(view[s]), iterates over list(view[s])[j] for j in J, for every
\* hierarchy, objects of both classes included.
C3_ListOfSlice ==
    (/\ last.op = "getitem_list"
     /\ OnSliceOfBase
     /\ Len(last.arg) > 0
     /\ ListGetItems(Elements(last.pre).val, last.arg).ok) =>
        /\ last.res = "ok"
        /\ Elements(views[3]) = ListGetItems(Elements(last.pre).val, last.arg)

\* the objects of a class at the given positions of the hierarchy's list
ObjectsAt(cls, positions) == ListGetItems(GetObjects(store, cls), positions)

\* the call was made on a proxy with an index-list mask
OnListMask == last.pre.mask.tag = "list"

\* the derived proxy the caller holds is a new proxy of the class of the
\* proxy the call was made on, and iterates over the objects at the positions
IsViewAt(positions) ==
    /\ last.res = "ok"
    /\ Len(views) = 3
    /\ views[3].cls = last.pre.cls
    /\ views[3].mask.tag # "None"
    /\ Elements(views[3]) = ObjectsAt(last.pre.cls, positions)

\* C4 as claimed: on a proxy with index-list mask L every slice s, those that
\* select no position of L included, gives a proxy over the objects at L[s],
\* and an index list J gives a proxy over the objects at [L[j] for j in J].
C4_AlwaysAView ==
    /\ (last.op = "getitem_slice" /\ OnListMask) =>
           IsViewAt(ListGetSlice(last.pre.mask.idx, last.arg))
    /\ (/\ last.op = "getitem_list" /\ OnListMask
        /\ Len(last.arg) > 0
        /\ ListGetItems(last.pre.mask.idx, last.arg).ok) =>
           IsViewAt(ListGetItems(last.pre.mask.idx, last.arg).val)

\* C4, amended: on a proxy with index-list mask L a slice s that selects at
\* least one position of L gives a new proxy of the same class over the
\* objects at L[s], in that order; a slice that selects no position of L
\* raises TypeError and gives no proxy; a non-empty index list J of positions
\* of L gives a proxy over the objects at [L[j] for j in J]; the store is the
\* same after the call.
C4_ListMaskStep ==
    /\ (last'.op = "getitem_slice" /\ OnListMask') =>
           /\ store' = store
           /\ IF ListGetSlice(last'.pre.mask.idx, last'.arg) = <<>>
              THEN last'.res = "TypeError" /\ views' = views
              ELSE IsViewAt(ListGetSlice(last.pre.mask.idx, last.arg))'
    /\ (/\ last'.op = "getitem_list" /\ OnListMask'
        /\ Len(last'.arg) > 0
        /\ ListGetItems(last'.pre.mask.idx, last'.arg).ok) =>
           /\ store' = store
           /\ IsViewAt(ListGetItems(last.pre.mask.idx, last.arg).val)'

C4_ListMaskComposition == [][C4_ListMaskStep]_vars

\* a slice with a negative step of a proxy with a two-position index list
\* gave a proxy that iterates over at least one object
C4_Witness ==
    /\ last.op = "getitem_slice" /\ OnListMask
    /\ Len(last.pre.mask.idx) = 2
    /\ last.arg.step = Some(-1)
    /\ last.res = "ok"
    /\ Elements(views[3]).ok
    /\ Len(Elements(views[3]).val) >= 1

====
